---------------------------- MODULE Spec2Model ----------------------------
(***************************************************************************)
(* AI Code Reviewer: the file admission pipeline of ProjectInput.tsx       *)
(* (shouldIgnoreFile, matchesPattern, handleFileChange), the prompt        *)
(* assembler and remote caller of geminiService.ts                         *)
(* (getProjectReviewFeedback) and the App component's review state.        *)
(*                                                                         *)
(* Text.  A JavaScript string is modelled as a sequence of units.  A unit  *)
(* is a one-character string ("a", "/", "\n"), a non-ASCII code point      *)
(* written "U+00E9", or a run "x*N": N consecutive letters x, written      *)
(* run-length encoded so that a two-megabyte file content stays one unit.  *)
(* Runs occur in file contents only; the code never searches a content, it *)
(* only concatenates it and measures its UTF-8 length, and both are exact  *)
(* on the run-length encoding.                                             *)
(***************************************************************************)
EXTENDS Integers, Sequences, FiniteSets, Bags, TLC

(***************************************************************************)
(* String primitives of the JavaScript runtime, as the code uses them.     *)
(***************************************************************************)
UpperToLower ==
  [c \in {"A","B","C","D","E","F","G","H","I","J","K","L","M",
          "N","O","P","Q","R","S","T","U","V","W","X","Y","Z"} |->
     CASE c = "A" -> "a" [] c = "B" -> "b" [] c = "C" -> "c" [] c = "D" -> "d"
       [] c = "E" -> "e" [] c = "F" -> "f" [] c = "G" -> "g" [] c = "H" -> "h"
       [] c = "I" -> "i" [] c = "J" -> "j" [] c = "K" -> "k" [] c = "L" -> "l"
       [] c = "M" -> "m" [] c = "N" -> "n" [] c = "O" -> "o" [] c = "P" -> "p"
       [] c = "Q" -> "q" [] c = "R" -> "r" [] c = "S" -> "s" [] c = "T" -> "t"
       [] c = "U" -> "u" [] c = "V" -> "v" [] c = "W" -> "w" [] c = "X" -> "x"
       [] c = "Y" -> "y" [] c = "Z" -> "z"]

\* String.prototype.toLowerCase
toLowerCase(s) ==
  [i \in 1..Len(s) |-> IF s[i] \in DOMAIN UpperToLower THEN UpperToLower[s[i]] ELSE s[i]]

\* String.prototype.startsWith
startsWith(s, p) == Len(p) <= Len(s) /\ SubSeq(s, 1, Len(p)) = p

\* String.prototype.endsWith
endsWith(s, p) == Len(p) <= Len(s) /\ SubSeq(s, Len(s) - Len(p) + 1, Len(s)) = p

\* String.prototype.includes
includes(s, p) == \E k \in 0..(Len(s) - Len(p)) : SubSeq(s, k + 1, k + Len(p)) = p

\* String.prototype.indexOf: the 0-based index of the first occurrence, -1 if none
indexOf(s, p) ==
  IF includes(s, p)
    THEN CHOOSE k \in 0..(Len(s) - Len(p)) :
           /\ SubSeq(s, k + 1, k + Len(p)) = p
           /\ \A j \in 0..(k - 1) : SubSeq(s, j + 1, j + Len(p)) # p
    ELSE -1

\* String.prototype.lastIndexOf for a one-character needle, 0-based, -1 if none
lastIndexOf(s, c) ==
  IF \E k \in 1..Len(s) : s[k] = c
    THEN (CHOOSE k \in 1..Len(s) : s[k] = c /\ \A j \in (k + 1)..Len(s) : s[j] # c) - 1
    ELSE -1

\* String.prototype.substring(from), 0-based
substring(s, from) == SubSeq(s, from + 1, Len(s))

\* Array.prototype.includes on an array of strings
arrayIncludes(a, x) == \E k \in 1..Len(a) : a[k] = x

\* filePath.replace(/\\/g, '/')
replaceBackslashes(s) == [i \in 1..Len(s) |-> IF s[i] = "\\" THEN "/" ELSE s[i]]

\* path.split('/')[0]
splitFirst(s) == IF indexOf(s, <<"/">>) = -1 THEN s ELSE SubSeq(s, 1, indexOf(s, <<"/">>))

(***************************************************************************)
(* Number formatting: the decimal digits of a natural number, as template  *)
(* literals and toFixed(0) print it.                                       *)
(***************************************************************************)
Digit(d) ==
  CASE d = 0 -> "0" [] d = 1 -> "1" [] d = 2 -> "2" [] d = 3 -> "3" [] d = 4 -> "4"
    [] d = 5 -> "5" [] d = 6 -> "6" [] d = 7 -> "7" [] d = 8 -> "8" [] d = 9 -> "9"

RECURSIVE numberToString(_)
numberToString(n) ==
  IF n < 10 THEN <<Digit(n)>> ELSE Append(numberToString(n \div 10), Digit(n % 10))

\* Math.round(a / b) for naturals a and b > 0: halves round up
mathRoundDiv(a, b) == (2 * a + b) \div (2 * b)

(***************************************************************************)
(* UTF-8 length of a text (new TextEncoder().encode(s).length): one byte   *)
(* per ASCII character, two for U+00E9, three for U+20AC, N for a run of N *)
(* ASCII letters.                                                          *)
(***************************************************************************)
RunLength ==
  ("x*30" :> 30) @@ ("x*50" :> 50) @@ ("x*120" :> 120) @@
  ("x*2097152" :> 2097152) @@ ("x*3799922" :> 3799922)

MultiByte == ("U+00E9" :> 2) @@ ("U+20AC" :> 3)

unitBytes(u) ==
  IF u \in DOMAIN RunLength THEN RunLength[u]
  ELSE IF u \in DOMAIN MultiByte THEN MultiByte[u]
  ELSE 1

\* The sum of the units' bytes, taken by halves.
RECURSIVE utf8Length(_)
utf8Length(s) ==
  IF s = <<>> THEN 0
  ELSE IF Len(s) = 1 THEN unitBytes(s[1])
  ELSE LET half == Len(s) \div 2
       IN  utf8Length(SubSeq(s, 1, half)) + utf8Length(SubSeq(s, half + 1, Len(s)))

\* String.prototype.length in UTF-16 code units (every modelled code point is in the BMP)
RECURSIVE stringLength(_)
stringLength(s) ==
  IF s = <<>> THEN 0
  ELSE (IF Head(s) \in DOMAIN RunLength THEN RunLength[Head(s)] ELSE 1) + stringLength(Tail(s))

(***************************************************************************)
(* ProjectInput.tsx: the fixed configuration.                              *)
(***************************************************************************)
ALLOWED_EXTENSIONS_AND_FILENAMES ==
  <<
     <<".","j","s">>,
     <<".","j","s","x">>,
     <<".","t","s">>,
     <<".","t","s","x">>,
     <<".","m","j","s">>,
     <<".","c","j","s">>,
     <<"p","a","c","k","a","g","e",".","j","s","o","n">>,
     <<"t","s","c","o","n","f","i","g",".","j","s","o","n">>,
     <<"j","s","c","o","n","f","i","g",".","j","s","o","n">>,
     <<".","e","s","l","i","n","t","r","c",".","j","s","o","n">>,
     <<".","p","r","e","t","t","i","e","r","r","c",".","j","s","o","n">>,
     <<".","b","a","b","e","l","r","c",".","j","s","o","n">>,
     <<".","h","t","m","l">>,
     <<".","h","t","m">>,
     <<".","c","s","s">>,
     <<".","s","c","s","s">>,
     <<".","s","a","s","s">>,
     <<".","l","e","s","s">>,
     <<".","s","t","y","l">>,
     <<".","p","y">>,
     <<"r","e","q","u","i","r","e","m","e","n","t","s",".","t","x","t">>,
     <<"P","i","p","f","i","l","e">>,
     <<"p","y","p","r","o","j","e","c","t",".","t","o","m","l">>,
     <<".","p","y","t","h","o","n","-","v","e","r","s","i","o","n">>,
     <<".","j","a","v","a">>,
     <<".","k","t">>,
     <<".","k","t","s">>,
     <<".","s","c","a","l","a">>,
     <<".","g","r","o","o","v","y">>,
     <<"p","o","m",".","x","m","l">>,
     <<"b","u","i","l","d",".","g","r","a","d","l","e">>,
     <<"b","u","i","l","d",".","g","r","a","d","l","e",".","k","t","s">>,
     <<"s","e","t","t","i","n","g","s",".","g","r","a","d","l","e">>,
     <<".","r","b">>,
     <<"G","e","m","f","i","l","e">>,
     <<"R","a","k","e","f","i","l","e">>,
     <<".","r","u","b","y","-","v","e","r","s","i","o","n">>,
     <<".","p","h","p">>,
     <<"c","o","m","p","o","s","e","r",".","j","s","o","n">>,
     <<".","g","o">>,
     <<"g","o",".","m","o","d">>,
     <<"g","o",".","s","u","m">>,
     <<".","r","s">>,
     <<"C","a","r","g","o",".","t","o","m","l">>,
     <<"C","a","r","g","o",".","l","o","c","k">>,
     <<".","c">>,
     <<".","c","p","p">>,
     <<".","h">>,
     <<".","h","p","p">>,
     <<"M","a","k","e","f","i","l","e">>,
     <<"C","M","a","k","e","L","i","s","t","s",".","t","x","t">>,
     <<".","s","w","i","f","t">>,
     <<".","m">>,
     <<".","h">>,
     <<".","s","h">>,
     <<".","b","a","s","h">>,
     <<".","z","s","h">>,
     <<"D","o","c","k","e","r","f","i","l","e">>,
     <<"d","o","c","k","e","r","-","c","o","m","p","o","s","e",".","y","m","l">>,
     <<".","y","m","l">>,
     <<".","y","a","m","l">>,
     <<".","j","s","o","n">>,
     <<".","x","m","l">>,
     <<".","i","n","i">>,
     <<".","t","o","m","l">>,
     <<".","c","o","n","f">>,
     <<".","c","f","g">>,
     <<".","p","r","o","p","e","r","t","i","e","s">>,
     <<".","m","d">>,
     <<".","t","x","t">>,
     <<".","r","s","t">>,
     <<".","s","q","l">>,
     <<".","w","a","t">>,
     <<".","v","u","e">>,
     <<".","s","v","e","l","t","e">>,
     <<".","g","i","t","i","g","n","o","r","e">>,
     <<".","g","i","t","a","t","t","r","i","b","u","t","e","s">>,
     <<".","e","d","i","t","o","r","c","o","n","f","i","g">>,
     <<"L","I","C","E","N","S","E">>,
     <<"R","E","A","D","M","E">>
  >>

IGNORED_PATTERNS ==
  <<
     <<"/",".","g","i","t","/">>,
     <<"/","n","o","d","e","_","m","o","d","u","l","e","s","/">>,
     <<"/","v","e","n","v","/">>,
     <<"/",".","v","e","n","v","/">>,
     <<"/","e","n","v","/">>,
     <<"/",".","e","n","v","/">>,
     <<"/","_","_","p","y","c","a","c","h","e","_","_","/">>,
     <<"/",".","p","y","t","e","s","t","_","c","a","c","h","e","/">>,
     <<"/",".","m","y","p","y","_","c","a","c","h","e","/">>,
     <<"/","d","i","s","t","/">>,
     <<"/","b","u","i","l","d","/">>,
     <<"/","o","u","t","/">>,
     <<"/","t","a","r","g","e","t","/">>,
     <<"/","b","i","n","/">>,
     <<"/",".","v","s","c","o","d","e","/">>,
     <<"/",".","i","d","e","a","/">>,
     <<"/",".","p","r","o","j","e","c","t","/">>,
     <<"/",".","c","l","a","s","s","p","a","t","h","/">>,
     <<"/",".","s","e","t","t","i","n","g","s","/">>,
     <<".","D","S","_","S","t","o","r","e">>,
     <<"T","h","u","m","b","s",".","d","b">>,
     <<"*",".","l","o","g">>,
     <<"*",".","z","i","p">>,
     <<"*",".","t","a","r">>,
     <<"*",".","g","z">>,
     <<"*",".","r","a","r">>,
     <<"*",".","7","z">>,
     <<"*",".","e","x","e">>,
     <<"*",".","d","l","l">>,
     <<"*",".","s","o">>,
     <<"*",".","o">>,
     <<"*",".","a">>,
     <<"*",".","l","i","b">>,
     <<"*",".","c","l","a","s","s">>,
     <<"*",".","p","y","c">>,
     <<"*",".","p","y","o">>,
     <<"*",".","w","a","s","m">>,
     <<"*",".","p","n","g">>,
     <<"*",".","j","p","g">>,
     <<"*",".","j","p","e","g">>,
     <<"*",".","g","i","f">>,
     <<"*",".","b","m","p">>,
     <<"*",".","t","i","f","f">>,
     <<"*",".","i","c","o">>,
     <<"*",".","w","e","b","p">>,
     <<"*",".","m","p","3">>,
     <<"*",".","w","a","v">>,
     <<".","o","g","g">>,
     <<"*",".","m","p","4">>,
     <<"*",".","m","o","v">>,
     <<"*",".","a","v","i">>,
     <<"*",".","w","e","b","m">>,
     <<"*",".","f","l","v">>,
     <<"*",".","p","d","f">>,
     <<"*",".","d","o","c">>,
     <<"*",".","d","o","c","x">>,
     <<"*",".","p","p","t">>,
     <<"*",".","p","p","t","x">>,
     <<"*",".","x","l","s">>,
     <<"*",".","x","l","s","x">>,
     <<"*",".","d","m","g">>,
     <<"*",".","i","s","o">>,
     <<"*",".","i","m","g">>,
     <<"*",".","w","o","f","f">>,
     <<"*",".","w","o","f","f","2">>,
     <<"*",".","t","t","f">>,
     <<"*",".","o","t","f">>,
     <<"*",".","e","o","t">>,
     <<"*",".","s","q","l","i","t","e">>,
     <<"*",".","d","b">>,
     <<"*",".","m","d","b">>,
     <<"*",".","c","s","v">>,
     <<"*",".","t","m","p">>,
     <<"*",".","t","e","m","p">>,
     <<"*",".","s","w","p">>,
     <<"*",".","s","w","o">>
  >>

MAX_FILE_SIZE_BYTES == 2 * 1024 * 1024

MAX_TOTAL_FILES == 500

\* A mutant of matchesPattern: a directory pattern matches when the path
\* contains the directory name anywhere.
matchesPattern_substring(path, pattern) ==
  IF startsWith(pattern, <<"/">>) /\ endsWith(pattern, <<"/">>)
    THEN includes(path, SubSeq(pattern, 2, Len(pattern) - 1))
  ELSE IF startsWith(pattern, <<"*", ".">>)
    THEN endsWith(toLowerCase(path), toLowerCase(substring(pattern, 1)))
  ELSE endsWith(toLowerCase(path), toLowerCase(pattern))

(***************************************************************************)
(* matchesPattern: a directory pattern /name/ is searched in the path      *)
(* wrapped in slashes; a pattern *.ext and any other pattern are compared  *)
(* with the end of the path, ignoring case.                                *)
(***************************************************************************)
\* A mutant of matchesPattern: a directory pattern matches at the root of the
\* path only.
matchesPattern_rootOnly(path, pattern) ==
  IF startsWith(pattern, <<"/">>) /\ endsWith(pattern, <<"/">>)
    THEN startsWith(<<"/">> \o path \o <<"/">>, pattern)
  ELSE IF startsWith(pattern, <<"*", ".">>)
    THEN endsWith(toLowerCase(path), toLowerCase(substring(pattern, 1)))
  ELSE endsWith(toLowerCase(path), toLowerCase(pattern))

matchesPattern(path, pattern) ==
  IF startsWith(pattern, <<"/">>) /\ endsWith(pattern, <<"/">>)
    THEN includes(<<"/">> \o path \o <<"/">>, pattern)
  ELSE IF startsWith(pattern, <<"*", ".">>)
    THEN endsWith(toLowerCase(path), toLowerCase(substring(pattern, 1)))
  ELSE endsWith(toLowerCase(path), toLowerCase(pattern))

\* A mutant of firstIgnoredPattern: the pattern /.env/ is passed over.
firstIgnoredPattern_skipsDotEnv(path, i) ==
  LET S == {k \in i..Len(IGNORED_PATTERNS) :
              /\ matchesPattern(path, IGNORED_PATTERNS[k])
              /\ IGNORED_PATTERNS[k] # <<"/", ".", "e", "n", "v", "/">>}
  IN  IF S = {} THEN 0 ELSE CHOOSE k \in S : \A j \in S : k <= j

\* The for loop over IGNORED_PATTERNS: the index of the first pattern that
\* matches, at or after i; 0 when none does.
RECURSIVE firstIgnoredPattern(_, _)
firstIgnoredPattern(path, i) ==
  IF i > Len(IGNORED_PATTERNS) THEN 0
  ELSE IF matchesPattern(path, IGNORED_PATTERNS[i]) THEN i
  ELSE firstIgnoredPattern(path, i + 1)

BARE_FILENAME(normalizedFilePath) ==
  IF includes(normalizedFilePath, <<"/">>)
    THEN substring(normalizedFilePath, lastIndexOf(normalizedFilePath, "/") + 1)
    ELSE normalizedFilePath

\* A mutant of EXTENSION: the extension keeps its case.
EXTENSION_caseKept(bareFilename) ==
  IF includes(bareFilename, <<".">>)
    THEN substring(bareFilename, lastIndexOf(bareFilename, "."))
    ELSE <<>>

EXTENSION(bareFilename) ==
  IF includes(bareFilename, <<".">>)
    THEN toLowerCase(substring(bareFilename, lastIndexOf(bareFilename, ".")))
    ELSE <<>>

(***************************************************************************)
(* The reasons shouldIgnoreFile gives.  A reason is the template of its    *)
(* message (kind) and the text interpolated into it (arg):                 *)
(*   "size"      File size ${arg}MB > 2MB limit                            *)
(*   "pattern"   Matches ignore pattern: ${arg}                            *)
(*   "noext"     No extension and '${arg}' not in allowed filenames list   *)
(*   "ext"       Extension '${arg}' not in allowed list                    *)
(*   "unreadable" Could not read as text (binary?)                         *)
(*   "none"      no reason (the file is not ignored)                       *)
(***************************************************************************)
Reason(kind, arg) == [kind |-> kind, arg |-> arg]

NoReason == Reason("none", <<>>)

\* Line 121: the bare filename or the extension is an entry of the allow-list.
isAllowed(bare, ext) ==
  \/ arrayIncludes(ALLOWED_EXTENSIONS_AND_FILENAMES, bare)
  \/ arrayIncludes(ALLOWED_EXTENSIONS_AND_FILENAMES, ext)

\* A mutant of exceedsFileSizeLimit: the limit itself is refused too.
exceedsFileSizeLimit_inclusive(fileSize) == fileSize >= MAX_FILE_SIZE_BYTES

\* Line 108: the file is over the per-file size limit.
exceedsFileSizeLimit(fileSize) == fileSize > MAX_FILE_SIZE_BYTES

\* A mutant of shouldIgnoreFile: the allow-list is consulted before the ignore
\* patterns.
shouldIgnoreFile_allowListFirst(filePath, fileSize) ==
  LET normalizedFilePath == replaceBackslashes(filePath)
      matched == firstIgnoredPattern(normalizedFilePath, 1)
      bare == BARE_FILENAME(normalizedFilePath)
      ext == EXTENSION(bare)
  IN  IF exceedsFileSizeLimit(fileSize)
        THEN [ignore |-> TRUE,
              reason |-> Reason("size", numberToString(mathRoundDiv(fileSize, 1024 * 1024)))]
      ELSE IF isAllowed(bare, ext)
        THEN [ignore |-> FALSE, reason |-> NoReason]
      ELSE IF matched # 0
        THEN [ignore |-> TRUE, reason |-> Reason("pattern", IGNORED_PATTERNS[matched])]
      ELSE IF ext = <<>>
        THEN [ignore |-> TRUE, reason |-> Reason("noext", bare)]
      ELSE [ignore |-> TRUE, reason |-> Reason("ext", ext)]

shouldIgnoreFile(filePath, fileSize) ==
  LET normalizedFilePath == replaceBackslashes(filePath)
      matched == firstIgnoredPattern(normalizedFilePath, 1)
      bare == BARE_FILENAME(normalizedFilePath)
      ext == EXTENSION(bare)
  IN  IF exceedsFileSizeLimit(fileSize)
        THEN [ignore |-> TRUE,
              reason |-> Reason("size", numberToString(mathRoundDiv(fileSize, 1024 * 1024)))]
      ELSE IF matched # 0
        THEN [ignore |-> TRUE, reason |-> Reason("pattern", IGNORED_PATTERNS[matched])]
      ELSE IF isAllowed(bare, ext)
        THEN [ignore |-> FALSE, reason |-> NoReason]
      ELSE IF ext = <<>> /\ ~arrayIncludes(ALLOWED_EXTENSIONS_AND_FILENAMES, bare)
        THEN [ignore |-> TRUE, reason |-> Reason("noext", bare)]
      ELSE IF ext # <<>> /\ ~arrayIncludes(ALLOWED_EXTENSIONS_AND_FILENAMES, ext)
        THEN [ignore |-> TRUE, reason |-> Reason("ext", ext)]
      ELSE [ignore |-> FALSE, reason |-> NoReason]

P_src_a_ts == <<"s","r","c","/","a",".","t","s">>   \* src/a.ts
P_src_b_ts == <<"s","r","c","/","b",".","t","s">>   \* src/b.ts
P_node_modules_x_y_js == <<"n","o","d","e","_","m","o","d","u","l","e","s","/","x","/","y",".","j","s">>   \* node_modules/x/y.js
P_README == <<"R","E","A","D","M","E">>   \* README
P_NOTES == <<"N","O","T","E","S">>   \* NOTES
P_app_py == <<"a","p","p",".","p","y">>   \* app.py
P_image_png == <<"i","m","a","g","e",".","p","n","g">>   \* image.png
P_dist_app_js == <<"d","i","s","t","/","a","p","p",".","j","s">>   \* dist/app.js
P_node_modules_git_c_js == <<"n","o","d","e","_","m","o","d","u","l","e","s","/",".","g","i","t","/","c",".","j","s">>   \* node_modules/.git/c.js
P_a_env == <<"a","/",".","e","n","v">>   \* a/.env
P_env_example == <<".","e","n","v",".","e","x","a","m","p","l","e">>   \* .env.example
P_backup_a_ts == <<"m","y","-","n","o","d","e","_","m","o","d","u","l","e","s","-","b","a","c","k","u","p","/","a",".","t","s">>   \* my-node_modules-backup/a.ts
P_src_bs_b_ts == <<"s","r","c","\\","b",".","t","s">>   \* src\\b.ts
P_lib_bs_node_modules_bs_z_js == <<"l","i","b","\\","n","o","d","e","_","m","o","d","u","l","e","s","\\","z",".","j","s">>   \* lib\\node_modules\\z.js
P_data_bin == <<"d","a","t","a",".","b","i","n">>   \* data.bin
P_Main_JAVA == <<"M","a","i","n",".","J","A","V","A">>   \* Main.JAVA
P_IMAGE_PNG == <<"I","M","A","G","E",".","P","N","G">>   \* IMAGE.PNG
P_Dockerfile == <<"D","o","c","k","e","r","f","i","l","e">>   \* Dockerfile
P_readme_lower == <<"r","e","a","d","m","e">>   \* readme
P_build == <<"b","u","i","l","d">>   \* build
P_debug_log == <<"d","e","b","u","g",".","l","o","g">>   \* debug.log
P_song_ogg == <<"s","o","n","g",".","o","g","g">>   \* song.ogg
P_a_dot == <<"a",".">>   \* a.
P_gitignore == <<".","g","i","t","i","g","n","o","r","e">>   \* .gitignore
P_mythumbs_db == <<"m","y","t","h","u","m","b","s",".","d","b">>   \* mythumbs.db
P_package_json == <<"p","k","g","/","p","a","c","k","a","g","e",".","j","s","o","n">>   \* pkg/package.json
P_vendor_node_modules_README == <<"v","e","n","d","o","r","/","n","o","d","e","_","m","o","d","u","l","e","s","/","R","E","A","D","M","E">>   \* vendor/node_modules/README
P_src_pdf_d_ts == <<"s","r","c",".","p","d","f","/","d",".","t","s">>   \* src.pdf/d.ts
P_Build_a_ts == <<"B","u","i","l","d","/","a",".","t","s">>   \* Build/a.ts
P_env_dir_config_ts == <<".","e","n","v","/","c","o","n","f","i","g",".","t","s">>   \* .env/config.ts
P_dot_env == <<".","e","n","v">>   \* .env

Paths ==
  {P_src_a_ts, P_src_b_ts, P_node_modules_x_y_js, P_README, P_NOTES,
   P_app_py, P_image_png, P_dist_app_js, P_node_modules_git_c_js, P_a_env,
   P_env_example, P_backup_a_ts, P_src_bs_b_ts, P_lib_bs_node_modules_bs_z_js, P_data_bin,
   P_Main_JAVA, P_IMAGE_PNG, P_Dockerfile, P_readme_lower, P_build,
   P_debug_log, P_song_ogg, P_a_dot, P_gitignore, P_mythumbs_db,
   P_package_json, P_vendor_node_modules_README, P_src_pdf_d_ts,
   P_Build_a_ts, P_env_dir_config_ts, P_dot_env}
(***************************************************************************)
(* Values that may be null: None is null, Some(v) is the value v.          *)
(***************************************************************************)
None == [some |-> FALSE]

Some(v) == [some |-> TRUE, val |-> v]

(***************************************************************************)
(* State.                                                                  *)
(*   hfc        the locals of the handleFileChange invocation              *)
(*              (ProjectInput.tsx:145-221): pc is "idle" before the first  *)
(*              change event, "await" while it is suspended in             *)
(*              `await file.text()` for filesToProcess[i], "done" after it *)
(*              returned.  ledger is a history of the loop: for every      *)
(*              iteration so far the values of filePath, ignore and reason *)
(*              (the commented-out console.log of line 185).               *)
(*   selectedFolderName, fileSummary, inputError, isProcessing             *)
(*              the useState cells of ProjectInput (lines 139-142)         *)
(*   console    what ProjectInput wrote with console.warn and             *)
(*              console.error                                              *)
(*   changeEvents  the number of change events of the file input so far    *)
(*   projectFiles, projectName, feedback, isLoading, error                 *)
(*              the useState cells of App (part_000:313-317)               *)
(*   reviews    the invocations of handleReviewProject (part_000:326-348)  *)
(*              that are suspended in await getProjectReviewFeedback(...), *)
(*              each with the locals of its getProjectReviewFeedback       *)
(*   API_KEY    process.env.API_KEY is set (part_000:8)                    *)
(*   call       the locals of the getProjectReviewFeedback invocation      *)
(*              (part_000:81-141) that was called directly, or that        *)
(*              settled last under App                                     *)
(***************************************************************************)
VARIABLES hfc, selectedFolderName, fileSummary, inputError, isProcessing, console, changeEvents,
          projectFiles, projectName, feedback, isLoading, error, reviews, API_KEY, call

vars == <<hfc, selectedFolderName, fileSummary, inputError, isProcessing, console, changeEvents,
          projectFiles, projectName, feedback, isLoading, error, reviews, API_KEY, call>>

inputVars == <<hfc, selectedFolderName, fileSummary, inputError, isProcessing, console, changeEvents>>

appVars == <<projectFiles, projectName, feedback, isLoading, error, reviews>>

serviceVars == <<API_KEY, call>>

(***************************************************************************)
(* ProjectInput: messages.                                                 *)
(***************************************************************************)
Message(msg, a, b) == [msg |-> msg, a |-> a, b |-> b]

NoMessage == Message("", 0, 0)

\* Processing the first ${MAX_TOTAL_FILES} files out of ${htmlFiles.length}. Some files were ignored.
TruncationError(total) == Message("Processing the first a files out of b. Some files were ignored.",
                                  MAX_TOTAL_FILES, total)

NoReviewableError == Message("No reviewable files found. Check file types or ignored patterns.", 0, 0)

NoFilesError == Message("No files selected or folder is empty.", 0, 0)

\* ${processedFileCount} file(s) collected. and, when b > 0,  ${skippedFileCount} file(s) skipped.
Summary(processed, skipped) ==
  IF skipped > 0 THEN Message("a file(s) collected. b file(s) skipped.", processed, skipped)
  ELSE Message("a file(s) collected.", processed, 0)

ProcessingSummary == Message("Processing files...", 0, 0)

SelectedFiles == <<"S","e","l","e","c","t","e","d","_","F","i","l","e","s">>

(***************************************************************************)
(* handleFileChange.  JavaScript runs the handler without interruption up  *)
(* to its next await, so one step of the model is the code from one        *)
(* `await file.text()` to the next (or to the return).                     *)
(***************************************************************************)
FilePath(file) ==
  IF file.webkitRelativePath # <<>> THEN file.webkitRelativePath ELSE file.name

Verdict(file) == shouldIgnoreFile(FilePath(file), file.size)

IdleInvocation ==
  [pc |-> "idle", htmlFiles |-> <<>>, filesToProcess |-> <<>>, i |-> 0,
   projectFiles |-> <<>>, folderName |-> None,
   processedFileCount |-> 0, skippedFileCount |-> 0, skippedReasons |-> EmptyBag,
   ledger |-> <<>>]

LedgerEntry(file, ignore, reason, accepted) ==
  [filePath |-> FilePath(file), size |-> file.size, ignore |-> ignore, reason |-> reason,
   accepted |-> accepted]

\* A mutant of CountReasons: skippedReasons[reason] = 1.
CountReasons_overwrite(skippedReasons, reasons) ==
  [x \in BagToSet(skippedReasons) \cup {reasons[k] : k \in 1..Len(reasons)} |->
     IF \E k \in 1..Len(reasons) : reasons[k] = x THEN 1 ELSE skippedReasons[x]]

\* skippedReasons[reason] = (skippedReasons[reason] || 0) + 1, for each of
\* reasons in turn
CountReasons(skippedReasons, reasons) ==
  skippedReasons (+)
    [x \in {reasons[k] : k \in 1..Len(reasons)} |->
       Cardinality({k \in 1..Len(reasons) : reasons[k] = x})]

\* A mutant of push: the item goes to the front (unshift).
push_unshift(array, item) == <<item>> \o array

\* projectFiles.push({ path: filePath, content })
push(array, item) == Append(array, item)

\* The loop of lines 178-199 from iteration from on, as far as it runs without
\* suspending: the files the filter ignores are counted one after the other, and
\* the loop stops at the first file it has to read (pc "await") or at the end of
\* filesToProcess (pc "finish").
RunLoop(r, from) ==
  LET n == Len(r.filesToProcess)
      verdict == [k \in from..n |-> Verdict(r.filesToProcess[k])]
      stop == IF \E k \in from..n : ~verdict[k].ignore
                THEN CHOOSE k \in from..n :
                       ~verdict[k].ignore /\ \A j \in from..(k - 1) : verdict[j].ignore
                ELSE n + 1
      ignored == [k \in 1..(stop - from) |->
                    LedgerEntry(r.filesToProcess[from + k - 1], TRUE, verdict[from + k - 1].reason, FALSE)]
  IN  [r EXCEPT !.pc = IF stop > n THEN "finish" ELSE "await",
                !.i = stop,
                !.skippedFileCount = @ + (stop - from),
                !.skippedReasons = CountReasons(@, [k \in 1..Len(ignored) |-> ignored[k].reason]),
                !.ledger = @ \o ignored]

\* Lines 201-218, after the loop: the accepted files go to onFilesSelected
\* (App's handleFilesSelected, part_000:319-324), then the summary and the
\* error of the component are set.
Finish(r, errorBefore, consoleBefore) ==
  /\ hfc' = [r EXCEPT !.pc = "done"]
  /\ projectFiles' = r.projectFiles
  /\ projectName' = r.folderName
  /\ feedback' = None
  /\ error' = None
  /\ isProcessing' = FALSE
  /\ fileSummary' = Summary(r.processedFileCount, r.skippedFileCount)
  /\ inputError' = IF Len(r.projectFiles) = 0 /\ Len(r.filesToProcess) > 0 THEN NoReviewableError
                   ELSE IF Len(r.projectFiles) = 0 /\ Len(r.filesToProcess) = 0 THEN NoFilesError
                   ELSE errorBefore
  /\ console' = IF Len(r.projectFiles) = 0 /\ Len(r.filesToProcess) > 0
                   /\ BagToSet(r.skippedReasons) # {}
                  THEN Append(consoleBefore, Message("warn: Reasons for skipping all files:", 0, 0))
                  ELSE consoleBefore

\* The handler suspends in await file.text(), or runs to its end.
Suspend(r, errorBefore, consoleBefore) ==
  IF r.pc = "finish"
    THEN Finish(r, errorBefore, consoleBefore)
    ELSE /\ hfc' = r
         /\ inputError' = errorBefore
         /\ console' = consoleBefore
         /\ isProcessing' = TRUE
         /\ fileSummary' = ProcessingSummary
         /\ UNCHANGED <<projectFiles, projectName, feedback, error>>

Min(a, b) == IF a < b THEN a ELSE b

\* handleFileChange, from the change event to the first await (or to the return).
handleFileChange(htmlFiles) ==
  /\ UNCHANGED <<isLoading, reviews, API_KEY, call>>
  /\ IF Len(htmlFiles) = 0
       THEN \* lines 147-153
            /\ hfc' = [IdleInvocation EXCEPT !.pc = "done"]
            /\ selectedFolderName' = None
            /\ fileSummary' = NoMessage
            /\ projectFiles' = <<>>
            /\ projectName' = None
            /\ feedback' = None
            /\ error' = None
            /\ inputError' = NoMessage
            /\ UNCHANGED <<isProcessing, console>>
       ELSE \* lines 155-178
            LET folderName ==
                  IF htmlFiles[1].webkitRelativePath # <<>>
                    THEN Some(splitFirst(htmlFiles[1].webkitRelativePath))
                    ELSE Some(SelectedFiles)
                filesToProcess == SubSeq(htmlFiles, 1, Min(Len(htmlFiles), MAX_TOTAL_FILES))
                tooMany == Len(htmlFiles) > MAX_TOTAL_FILES
                r == [IdleInvocation EXCEPT !.htmlFiles = htmlFiles,
                                            !.filesToProcess = filesToProcess,
                                            !.folderName = folderName]
            IN  /\ selectedFolderName' = folderName
                /\ Suspend(RunLoop(r, 1),
                           IF tooMany THEN TruncationError(Len(htmlFiles)) ELSE NoMessage,
                           IF tooMany
                             THEN Append(console, Message("warn: Too many files selected (a). Processing the first b.",
                                                          Len(htmlFiles), MAX_TOTAL_FILES))
                             ELSE console)

\* file.text() resolved: lines 190-192, then the loop goes on.
ReadResolved ==
  /\ hfc.pc = "await"
  /\ LET file == hfc.filesToProcess[hfc.i] IN
       /\ file.text.ok
       /\ Suspend(RunLoop([hfc EXCEPT
                             !.projectFiles = push(@, [path |-> FilePath(file), content |-> file.text.content]),
                             !.processedFileCount = @ + 1,
                             !.ledger = Append(@, LedgerEntry(file, FALSE, NoReason, TRUE))],
                          hfc.i + 1),
                  inputError, console)
  /\ UNCHANGED <<selectedFolderName, changeEvents, isLoading, reviews, API_KEY, call>>

\* A mutant of ReadRejected: the rejection leaves the handler.
ReadRejected_aborts ==
  /\ hfc.pc = "await"
  /\ ~hfc.filesToProcess[hfc.i].text.ok
  /\ hfc' = [hfc EXCEPT !.pc = "done"]
  /\ isProcessing' = FALSE
  /\ UNCHANGED <<selectedFolderName, fileSummary, inputError, console, changeEvents, appVars, serviceVars>>

\* file.text() rejected: lines 193-198, then the loop goes on.
ReadRejected ==
  /\ hfc.pc = "await"
  /\ LET file == hfc.filesToProcess[hfc.i]
         skipReason == Reason("unreadable", <<>>)
     IN
       /\ ~file.text.ok
       /\ Suspend(RunLoop([hfc EXCEPT
                             !.skippedFileCount = @ + 1,
                             !.skippedReasons = CountReasons(@, <<skipReason>>),
                             !.ledger = Append(@, LedgerEntry(file, FALSE, skipReason, FALSE))],
                          hfc.i + 1),
                  inputError,
                  Append(console, Message("error: Could not read file as text:", hfc.i, 0)))
  /\ UNCHANGED <<selectedFolderName, changeEvents, isLoading, reviews, API_KEY, call>>

(***************************************************************************)
(* The files of the admission runs.  A file of a selected folder has its   *)
(* path in webkitRelativePath; a file selected by itself has an empty      *)
(* webkitRelativePath and only a name.  size is the UTF-8 length of the    *)
(* content; text is what file.text() settles to.                           *)
(***************************************************************************)
File(path, content, readable) ==
  [webkitRelativePath |-> IF includes(path, <<"/">>) THEN path ELSE <<>>,
   name |-> BARE_FILENAME(path),
   size |-> utf8Length(content),
   text |-> [ok |-> readable, content |-> content]]

MaxFiles == 3

Contents == {<<"x">>, <<"U+00E9">>, <<"x*2097152">>, <<"x*2097152", "x">>}

Singles == {<<File(p, c, ok)>> : p \in Paths, c \in Contents, ok \in BOOLEAN}

CoreFiles ==
  {File(P_src_a_ts, <<"a">>, TRUE), File(P_node_modules_x_y_js, <<"y">>, TRUE),
   File(P_README, <<"r">>, TRUE), File(P_src_b_ts, <<"b">>, FALSE), File(P_NOTES, <<"n">>, TRUE)}

Tuples == UNION {[1..n -> CoreFiles] : n \in 2..MaxFiles}

\* More files than MAX_TOTAL_FILES, none of the first MAX_TOTAL_FILES reviewable.
BigAllIgnored == [k \in 1..(MAX_TOTAL_FILES + 1) |-> File(P_image_png, <<"x">>, TRUE)]

\* More files than MAX_TOTAL_FILES: the last one inside the cap and the one
\* beyond it are reviewable.
BigMixed ==
  [k \in 1..(MAX_TOTAL_FILES + 1) |->
     IF k = MAX_TOTAL_FILES THEN File(P_src_a_ts, <<"a">>, TRUE)
     ELSE IF k = MAX_TOTAL_FILES + 1 THEN File(P_README, <<"r">>, TRUE)
     ELSE File(P_image_png, <<"x">>, TRUE)]

\* Exactly MAX_TOTAL_FILES files.
BigAtCap ==
  [k \in 1..MAX_TOTAL_FILES |->
     IF k = 1 THEN File(P_app_py, <<"p">>, TRUE) ELSE File(P_debug_log, <<"x">>, TRUE)]

\* The end-to-end scenario of the documentation: sizes 120, 50 and 30.
Scenario ==
  <<File(P_src_a_ts, <<"x*120">>, TRUE), File(P_node_modules_x_y_js, <<"x*50">>, TRUE),
    File(P_README, <<"x*30">>, TRUE)>>

\* Files at the size cap and one byte over it.
SizeEdge ==
  <<File(P_README, <<"x*2097152">>, TRUE), File(P_README, <<"x*2097152", "x">>, TRUE),
    File(P_image_png, <<"x*2097152", "x">>, TRUE), File(P_image_png, <<"x*2097152">>, TRUE)>>

\* Files the allow-list decides.
AllowListExamples ==
  <<File(P_README, <<"r">>, TRUE), File(P_app_py, <<"p">>, TRUE), File(P_NOTES, <<"n">>, TRUE),
    File(P_data_bin, <<"d">>, TRUE)>>

\* Files an ignore pattern matches.
PatternExamples ==
  <<File(P_image_png, <<"i">>, TRUE), File(P_dist_app_js, <<"j">>, TRUE),
    File(P_mythumbs_db, <<"t">>, TRUE), File(P_node_modules_git_c_js, <<"c">>, TRUE),
    File(P_dist_app_js, <<"x*2097152", "x">>, TRUE)>>

AdmitInputs ==
  {<<>>} \cup Singles \cup Tuples
    \cup {Scenario, SizeEdge, AllowListExamples, PatternExamples, BigAllIgnored, BigMixed, BigAtCap}

(***************************************************************************)
(* Initial state: the components as mounted.                               *)
(***************************************************************************)
IdleCall ==
  [state |-> "Idle", files |-> <<>>, projectName |-> <<>>, combinedContent |-> <<>>,
   currentContentLength |-> 0, requests |-> 0, caught |-> None, thrown |-> None, returned |-> None]

Init ==
  /\ hfc = IdleInvocation
  /\ selectedFolderName = None
  /\ fileSummary = NoMessage
  /\ inputError = NoMessage
  /\ isProcessing = FALSE
  /\ console = <<>>
  /\ changeEvents = 0
  /\ projectFiles = <<>>
  /\ projectName = None
  /\ feedback = None
  /\ isLoading = FALSE
  /\ error = None
  /\ reviews = <<>>
  /\ API_KEY \in BOOLEAN
  /\ call = IdleCall

(***************************************************************************)
(* SpecAdmit: one run of the admission pipeline, from the first change     *)
(* event of the file input to the return of handleFileChange.              *)
(***************************************************************************)
FirstChangeEvent ==
  /\ hfc.pc = "idle"
  /\ changeEvents' = changeEvents + 1
  /\ \E htmlFiles \in AdmitInputs : handleFileChange(htmlFiles)

NextAdmit == FirstChangeEvent \/ ReadResolved \/ ReadRejected

SpecAdmit == Init /\ [][NextAdmit]_vars


(***************************************************************************)
(* geminiService.ts: getProjectReviewFeedback.                             *)
(*                                                                         *)
(* call.state is where the invocation stands: "Idle" before it,            *)
(* "ConfigurationMissing", "PreconditionEmpty" or "SizeRejected" when it   *)
(* threw at line 83, 90 or 108, "Calling" while it is suspended in         *)
(* `await ai.models.generateContent(...)`, "Succeeded" when it returned    *)
(* response.text and "Failed" when the catch block threw.  requests counts *)
(* the requests it issued, caught is what the catch block caught, thrown   *)
(* is the Error the invocation threw, returned the                         *)
(* value it returned (None inside Some: undefined).                        *)
(***************************************************************************)
ProjectNameLabel == <<"P","r","o","j","e","c","t"," ","N","a","m","e",":"," ">>   \* Project Name: 
TwoNewlines == <<"\n","\n">>   \* two line feeds
FilePathOpen == <<"-","-","-"," ","F","i","l","e"," ","P","a","t","h",":"," ">>   \* --- File Path: 
FenceOpen == <<" ","-","-","-","\n","U+0060","U+0060","U+0060","\n">>   \*  ---, line feed, three backticks, line feed
EndOfFileOpen == <<"\n","U+0060","U+0060","U+0060","\n","-","-","-"," ","E","n","d"," ","o","f"," ","F","i","l","e",":"," ">>   \* line feed, three backticks, line feed, --- End of File: 
BlockClose == <<" ","-","-","-","\n","\n">>   \*  --- and two line feeds
EndOfFileLabel == <<"-","-","-"," ","E","n","d"," ","o","f"," ","F","i","l","e",":"," ">>   \* --- End of File: 
UnnamedProject == <<"U","n","n","a","m","e","d"," ","P","r","o","j","e","c","t">>   \* Unnamed Project
ApiKeyNotValid == <<"A","P","I"," ","k","e","y"," ","n","o","t"," ","v","a","l","i","d">>   \* API key not valid
FourHundred == <<"4","0","0">>   \* 400
BadRequest == <<"b","a","d"," ","r","e","q","u","e","s","t">>   \* bad request
PayloadSize == <<"p","a","y","l","o","a","d"," ","s","i","z","e">>   \* payload size
RequestEntityTooLarge == <<"r","e","q","u","e","s","t"," ","e","n","t","i","t","y"," ","t","o","o"," ","l","a","r","g","e">>   \* request entity too large
E_auth == <<"A","P","I"," ","k","e","y"," ","n","o","t"," ","v","a","l","i","d","."," ","P","l","e","a","s","e"," ","p","a","s","s"," ","a"," ","v","a","l","i","d"," ","A","P","I"," ","k","e","y",".">>   \* API key not valid. Please pass a valid API key.
E_payload == <<"4","0","0"," ","B","a","d"," ","R","e","q","u","e","s","t",":"," ","P","a","y","l","o","a","d"," ","s","i","z","e"," ","e","x","c","e","e","d","s"," ","t","h","e"," ","l","i","m","i","t">>   \* 400 Bad Request: Payload size exceeds the limit
E_entity == <<"[","4","0","0","]"," ","R","e","q","u","e","s","t"," ","E","n","t","i","t","y"," ","T","o","o"," ","L","a","r","g","e">>   \* [400] Request Entity Too Large
E_authAndPayload == <<"4","0","0"," ","p","a","y","l","o","a","d"," ","s","i","z","e",":"," ","A","P","I"," ","k","e","y"," ","n","o","t"," ","v","a","l","i","d">>   \* 400 payload size: API key not valid
E_sizeNo400 == <<"4","1","3"," ","R","e","q","u","e","s","t"," ","E","n","t","i","t","y"," ","T","o","o"," ","L","a","r","g","e">>   \* 413 Request Entity Too Large
E_network == <<"f","e","t","c","h"," ","f","a","i","l","e","d">>   \* fetch failed
T_fenced == <<"U+0060","U+0060","U+0060","\n","-","-","-"," ","F","i","l","e"," ","P","a","t","h",":"," ","z"," ","-","-","-","\n","U+0060","U+0060","U+0060">>   \* (fence)\n--- File Path: z ---\n(fence)
T_endTail == <<"q","\n","U+0060","U+0060","U+0060","\n","-","-","-"," ","E","n","d"," ","o","f"," ","F","i","l","e",":"," ","c",".","j","s"," ","-","-","-","\n">>   \* q\n(fence)\n--- End of File: c.js ---\n
P_a_ts == <<"a",".","t","s">>   \* a.ts
P_b_md == <<"b",".","m","d">>   \* b.md
P_c_js == <<"c",".","j","s">>   \* c.js
P_delimiterLike == <<"-","-","-"," ","E","n","d"," ","o","f"," ","F","i","l","e",":"," ","a",".","t","s"," ","-","-","-">>   \* --- End of File: a.ts ---
P_lineBreak == <<"d"," ","-","-","-","\n","U+0060","U+0060","U+0060","\n","e">>   \* d ---\n(fence)\ne

MAX_CONTENT_LENGTH_BYTES == 3800000

\* new Error(message): the message is a template and the texts put into it.
ErrorMessage(template, args) == [template |-> template, args |-> args]

ConfigurationMissingError ==
  ErrorMessage("Gemini API key is not configured. Please set the API_KEY environment variable.", <<>>)

PreconditionEmptyError ==
  ErrorMessage("No files were provided for review. Please select a project with reviewable files.", <<>>)

\* KBRatio and LimitKB are (bytes / 1024).toFixed(0)
PayloadTooLargeError(currentContentLength) ==
  ErrorMessage("The project content (${1} KB) is too large and exceeds the processing limit of ${2} KB. Please try with a smaller project or select fewer files.",
               <<numberToString(mathRoundDiv(currentContentLength, 1024)),
                 numberToString(mathRoundDiv(MAX_CONTENT_LENGTH_BYTES, 1024))>>)

RemoteAuthInvalidError ==
  ErrorMessage("Invalid Gemini API Key. Please check your API_KEY environment variable.", <<>>)

RemotePayloadRejectedError ==
  ErrorMessage("The project is too large to be processed by the API. Please try with a smaller selection of files.", <<>>)

RemoteGenericFailureError(message) ==
  ErrorMessage("Failed to get project review feedback: ${1}", <<message>>)

UnknownError ==
  ErrorMessage("An unknown error occurred while fetching project review feedback.", <<>>)

\* Lines 94-96: the block of one file.
fileBlock(file) ==
  FilePathOpen \o file.path \o FenceOpen \o file.content \o EndOfFileOpen \o file.path \o BlockClose

\* files.map(...).join('')
RECURSIVE joinBlocks(_)
joinBlocks(files) ==
  IF files = <<>> THEN <<>> ELSE fileBlock(Head(files)) \o joinBlocks(Tail(files))

\* Lines 93-96.
combinedContentOf(files, name) ==
  ProjectNameLabel \o name \o TwoNewlines \o joinBlocks(files)

\* Line 99: new TextEncoder().encode(combinedContent).length
contentLength(combinedContent) == utf8Length(combinedContent)

\* A mutant of exceedsContentLimit: the limit itself is refused too.
exceedsContentLimit_inclusive(currentContentLength) == currentContentLength >= MAX_CONTENT_LENGTH_BYTES

\* Line 101.
exceedsContentLimit(currentContentLength) == currentContentLength > MAX_CONTENT_LENGTH_BYTES

\* A mutant of noFiles: the empty list is let through.
noFiles_never(files) == FALSE

\* Line 88.
noFiles(files) == Len(files) = 0

\* A mutant of StartCall: the empty list is tested before the API key.
StartCall_emptyFirst(files, name) ==
  LET c == [IdleCall EXCEPT !.files = files, !.projectName = name]
      combinedContent == combinedContentOf(files, name)
      currentContentLength == contentLength(combinedContent)
  IN  IF noFiles(files)
        THEN [c EXCEPT !.state = "PreconditionEmpty", !.thrown = Some(PreconditionEmptyError)]
      ELSE IF ~API_KEY
        THEN [c EXCEPT !.state = "ConfigurationMissing", !.thrown = Some(ConfigurationMissingError)]
      ELSE IF exceedsContentLimit(currentContentLength)
        THEN [c EXCEPT !.state = "SizeRejected",
                       !.combinedContent = combinedContent,
                       !.currentContentLength = currentContentLength,
                       !.thrown = Some(PayloadTooLargeError(currentContentLength))]
      ELSE [c EXCEPT !.state = "Calling",
                     !.combinedContent = combinedContent,
                     !.currentContentLength = currentContentLength,
                     !.requests = @ + 1]

\* Lines 82-122: the invocation up to its await, or to its throw.
StartCall(files, name) ==
  LET c == [IdleCall EXCEPT !.files = files, !.projectName = name]
      combinedContent == combinedContentOf(files, name)
      currentContentLength == contentLength(combinedContent)
  IN  IF ~API_KEY
        THEN [c EXCEPT !.state = "ConfigurationMissing", !.thrown = Some(ConfigurationMissingError)]
      ELSE IF noFiles(files)
        THEN [c EXCEPT !.state = "PreconditionEmpty", !.thrown = Some(PreconditionEmptyError)]
      ELSE IF exceedsContentLimit(currentContentLength)
        THEN [c EXCEPT !.state = "SizeRejected",
                       !.combinedContent = combinedContent,
                       !.currentContentLength = currentContentLength,
                       !.thrown = Some(PayloadTooLargeError(currentContentLength))]
      ELSE [c EXCEPT !.state = "Calling",
                     !.combinedContent = combinedContent,
                     !.currentContentLength = currentContentLength,
                     !.requests = @ + 1]

\* Line 124: generateContent resolved; response.text is a string or undefined.
Resolved(c, responseText) == [c EXCEPT !.state = "Succeeded", !.returned = Some(responseText)]

\* What generateContent may reject with: an Error with a message, or a value
\* that is no Error.
RemoteError(message) == [isError |-> TRUE, message |-> message]

NotAnError == [isError |-> FALSE, message |-> <<>>]

\* A mutant of classify: the payload test comes before the API key test.
classify_payloadFirst(err) ==
  IF err.isError
    THEN IF /\ (includes(err.message, FourHundred) \/ includes(toLowerCase(err.message), BadRequest))
            /\ (includes(toLowerCase(err.message), PayloadSize)
                  \/ includes(toLowerCase(err.message), RequestEntityTooLarge))
           THEN RemotePayloadRejectedError
         ELSE IF includes(err.message, ApiKeyNotValid)
           THEN RemoteAuthInvalidError
         ELSE RemoteGenericFailureError(err.message)
    ELSE UnknownError

\* Lines 126-140: the catch block.
classify(err) ==
  IF err.isError
    THEN IF includes(err.message, ApiKeyNotValid)
           THEN RemoteAuthInvalidError
         ELSE IF /\ (includes(err.message, FourHundred) \/ includes(toLowerCase(err.message), BadRequest))
                 /\ (includes(toLowerCase(err.message), PayloadSize)
                       \/ includes(toLowerCase(err.message), RequestEntityTooLarge))
           THEN RemotePayloadRejectedError
         ELSE RemoteGenericFailureError(err.message)
    ELSE UnknownError

\* A mutant of Rejected: the catch block issues the request again.
Rejected_retry(c, err) == [c EXCEPT !.requests = @ + 1]

Rejected(c, err) ==
  [c EXCEPT !.state = "Failed", !.caught = Some(err), !.thrown = Some(classify(err))]

ResponseTexts == {Some(<<"o", "k">>), Some(<<>>), None}

RemoteErrors ==
  {RemoteError(E_auth), RemoteError(E_payload), RemoteError(E_entity),
   RemoteError(E_authAndPayload), RemoteError(E_sizeNo400), RemoteError(E_network), NotAnError}

(***************************************************************************)
(* SpecReview: one invocation of getProjectReviewFeedback, with any list   *)
(* of up to MaxReviewFiles files of a pool and any project name of a pool, *)
(* from the call to the settling of its promise.                           *)
(***************************************************************************)
ProjectFile(path, content) == [path |-> path, content |-> content]

MaxReviewFiles == 2

\* Files whose blocks are measured: with the project name "p" the blob is one
\* byte under the limit, at the limit, and one byte over it (as one more
\* letter, and as one two-byte letter).
LargeFiles ==
  {ProjectFile(P_a_ts, <<"x*3799922">>), ProjectFile(P_a_ts, <<"x*3799922", "x">>),
   ProjectFile(P_a_ts, <<"x*3799922", "x", "x">>), ProjectFile(P_a_ts, <<"x*3799922", "U+00E9">>)}

\* Files whose paths have no line break and whose contents have no
\* --- End of File: .
PlainFiles ==
  {ProjectFile(P_a_ts, <<"x">>), ProjectFile(P_b_md, <<"y">>), ProjectFile(P_c_js, T_fenced),
   ProjectFile(P_delimiterLike, <<>>)}

\* The text that stands between the content of a.ts and the content of b.md
\* in a blob: a file that quotes an earlier prompt holds it.
T_boundary == EndOfFileOpen \o P_a_ts \o BlockClose \o FilePathOpen \o P_b_md \o FenceOpen

\* Files whose content or path holds a delimiter of the framing.
DelimiterFiles ==
  {ProjectFile(P_a_ts, <<"x">> \o T_boundary), ProjectFile(P_b_md, T_boundary \o <<"y">>),
   ProjectFile(P_c_js, T_endTail), ProjectFile(P_lineBreak, <<"z">>)}

ReviewInputs ==
  {<<>>} \cup {<<f>> : f \in LargeFiles \cup DelimiterFiles}
         \cup UNION {[1..n -> PlainFiles] : n \in 1..MaxReviewFiles}
         \cup {<<f, g>> : f \in DelimiterFiles \cup {ProjectFile(P_a_ts, <<"x">>)},
                          g \in DelimiterFiles \cup {ProjectFile(P_b_md, <<"y">>)}}

ReviewNames == {<<"p">>, UnnamedProject}

DirectCall ==
  /\ call.state = "Idle"
  /\ \E files \in ReviewInputs, name \in ReviewNames : call' = StartCall(files, name)
  /\ UNCHANGED <<inputVars, appVars, API_KEY>>

RemoteResolves ==
  /\ call.state = "Calling"
  /\ \E responseText \in ResponseTexts : call' = Resolved(call, responseText)
  /\ UNCHANGED <<inputVars, appVars, API_KEY>>

RemoteRejects ==
  /\ call.state = "Calling"
  /\ \E err \in RemoteErrors : call' = Rejected(call, err)
  /\ UNCHANGED <<inputVars, appVars, API_KEY>>

NextReview == DirectCall \/ RemoteResolves \/ RemoteRejects

SpecReview == Init /\ [][NextReview]_vars

(***************************************************************************)
(* App.tsx: the review action.  A step of the model is the code a handler  *)
(* runs from one await to the next, and the render that follows it: the    *)
(* controls are enabled or disabled by the state the step left.            *)
(***************************************************************************)
SelectProjectError ==
  ErrorMessage("Please select a project folder to review, or ensure it contains reviewable files.", <<>>)

UnknownReviewError == ErrorMessage("An unknown error occurred while reviewing the project.", <<>>)

\* A mutant of ActionButtonDisabled: the button is not disabled while loading.
ActionButtonDisabled_emptyOnly == Len(projectFiles) = 0

\* Line 369, and line 23 of ActionButton: disabled={isLoading || projectFiles.length === 0}
ActionButtonDisabled == isLoading \/ Len(projectFiles) = 0

\* Line 356, and lines 246 and 253 of ProjectInput: disabled={disabled || isProcessing}
FileInputDisabled == isLoading \/ isProcessing

\* Line 336: projectName || "Unnamed Project"
projectNameOrDefault ==
  IF projectName = None \/ projectName.val = <<>> THEN UnnamedProject ELSE projectName.val

Remove(seq, k) == SubSeq(seq, 1, k - 1) \o SubSeq(seq, k + 1, Len(seq))

\* A mutant of Settled: isLoading is left as it is.
Settled_noFinally(k, c) ==
  /\ call' = c
  /\ reviews' = Remove(reviews, k)
  /\ UNCHANGED isLoading

\* The invocation reviews[k] leaves its await with the settled call c and
\* returns through the finally block (line 346).
Settled(k, c) ==
  /\ call' = c
  /\ reviews' = Remove(reviews, k)
  /\ isLoading' = FALSE

\* Lines 338-343: the catch block; every value getProjectReviewFeedback throws
\* is an Error, so the message set is its message.
catch(thrown) == error' = thrown

\* handleReviewProject from the click to its await.  When
\* getProjectReviewFeedback throws before its own await, the promise is
\* already rejected and the handler runs on to its end before any other event.
handleReviewProject ==
  /\ UNCHANGED <<inputVars, projectFiles, projectName, API_KEY>>
  /\ IF Len(projectFiles) = 0
       THEN \* lines 327-331
            /\ error' = Some(SelectProjectError)
            /\ feedback' = None
            /\ UNCHANGED <<isLoading, reviews, call>>
       ELSE \* lines 332-346
            LET c == StartCall(projectFiles, projectNameOrDefault)
            IN  IF c.state = "Calling"
                  THEN /\ isLoading' = TRUE
                       /\ error' = None
                       /\ feedback' = None
                       /\ reviews' = Append(reviews, c)
                       /\ UNCHANGED call
                  ELSE /\ feedback' = None
                       /\ catch(c.thrown)
                       /\ call' = c
                       /\ isLoading' = FALSE
                       /\ UNCHANGED reviews

(***************************************************************************)
(* Spec: the application.  The user selects folders and clicks the review  *)
(* button whenever the controls are enabled; the reads of the files and    *)
(* the remote call settle in any order.                                    *)
(***************************************************************************)
MaxChangeEvents == 3

MaxOutstanding == 2

AppSelections ==
  {<<>>,
   <<File(P_src_a_ts, <<"a">>, TRUE)>>,
   <<File(P_src_b_ts, <<"b">>, FALSE), File(P_README, <<"r">>, TRUE)>>,
   <<File(P_src_a_ts, <<"x*2097152">>, TRUE), File(P_README, <<"x*2097152">>, TRUE)>>}

ChangeEvent ==
  /\ ~FileInputDisabled
  /\ changeEvents < MaxChangeEvents
  /\ changeEvents' = changeEvents + 1
  /\ \E htmlFiles \in AppSelections : handleFileChange(htmlFiles)

ClickReview ==
  /\ ~ActionButtonDisabled
  /\ Len(reviews) < MaxOutstanding
  /\ handleReviewProject

\* Lines 336-337: the await returned the review.
ReviewResolves ==
  \E k \in 1..Len(reviews), responseText \in ResponseTexts :
    LET c == Resolved(reviews[k], responseText)
    IN  /\ Settled(k, c)
        /\ feedback' = c.returned
        /\ UNCHANGED <<inputVars, projectFiles, projectName, error, API_KEY>>

\* Lines 338-346: the await threw what getProjectReviewFeedback threw.
ReviewRejects ==
  \E k \in 1..Len(reviews), err \in RemoteErrors :
    LET c == Rejected(reviews[k], err)
    IN  /\ Settled(k, c)
        /\ catch(c.thrown)
        /\ UNCHANGED <<inputVars, projectFiles, projectName, feedback, API_KEY>>

Next == ChangeEvent \/ ReadResolved \/ ReadRejected \/ ClickReview \/ ReviewResolves \/ ReviewRejects

Spec == Init /\ [][Next]_vars

\* The remote call settles: the promise of generateContent resolves or rejects.
LiveSpec == Spec /\ WF_vars(ReviewResolves \/ ReviewRejects)

(***************************************************************************)
(* Properties of getProjectReviewFeedback (SpecReview).                    *)
(***************************************************************************)
Threw(e) == call.thrown = Some(e)

\* C4, as the specification states it: an invocation with an empty file list
\* fails with the Precondition-empty error and issues no request.
C4_EmptyListPreconditionEmpty ==
  (call.state # "Idle" /\ call.files = <<>>)
    => (Threw(PreconditionEmptyError) /\ call.requests = 0)

\* C4, as the code has it: an invocation with an empty file list issues no
\* request, and fails with the Precondition-empty error when the API key is
\* configured and with the Configuration-missing error when it is not.
C4_EmptyListFailsWithoutRequest ==
  (call.state # "Idle" /\ call.files = <<>>)
    => /\ call.requests = 0
       /\ API_KEY => (call.state = "PreconditionEmpty" /\ Threw(PreconditionEmptyError))
       /\ ~API_KEY => (call.state = "ConfigurationMissing" /\ Threw(ConfigurationMissingError))

C4_Witness ==
  API_KEY /\ call.files = <<>> /\ call.state = "PreconditionEmpty" /\ call.requests = 0

\* The byte size of the blob counted from its parts: 14 bytes of header
\* label, the project name and 2 line feeds, then for each file 52 bytes of
\* framing, its path twice and its content.
RECURSIVE BlockBytes(_)
BlockBytes(files) ==
  IF files = <<>> THEN 0
  ELSE 52 + 2 * utf8Length(Head(files).path) + utf8Length(Head(files).content)
          + BlockBytes(Tail(files))

BlobBytes == 16 + utf8Length(call.projectName) + BlockBytes(call.files)

BlobAssembled == call.state \notin {"Idle", "ConfigurationMissing", "PreconditionEmpty"}

\* C5: once the blob is assembled, a blob of more than 3,800,000 bytes makes
\* the invocation fail with Payload-too-large without a request, and a blob
\* of 3,800,000 bytes or fewer makes it issue exactly one request.
C5_AggregateSizeAdmission ==
  BlobAssembled =>
    /\ call.currentContentLength = BlobBytes
    /\ BlobBytes > 3800000 =>
          /\ call.state = "SizeRejected"
          /\ Threw(PayloadTooLargeError(BlobBytes))
          /\ call.requests = 0
    /\ BlobBytes <= 3800000 =>
          /\ call.state \in {"Calling", "Succeeded", "Failed"}
          /\ call.requests = 1

C5_Witness ==
  call.state = "SizeRejected" /\ BlobBytes = 3800001 /\ call.requests = 0

\* The other side of the boundary: a blob of exactly 3,800,000 bytes is sent.
AtLimitIsSent == call.state = "Calling" /\ BlobBytes = 3800000 /\ call.requests = 1

\* C6: the blob determines the list it was assembled from, so that splitting
\* it on its markers gives back the ordered (path, content) pairs: no other
\* list of pairs assembles to the same blob.
C6_RoundTripFraming ==
  BlobAssembled =>
    \A files \in ReviewInputs :
      combinedContentOf(files, call.projectName) = call.combinedContent => files = call.files


\* The states in which the invocation has thrown, and those in which the
\* request has been issued.
ThrownStates == {"ConfigurationMissing", "PreconditionEmpty", "SizeRejected", "Failed"}

RequestedStates == {"Calling", "Succeeded", "Failed"}

CallShape(c) ==
  /\ c.requests = (IF c.state \in RequestedStates THEN 1 ELSE 0)
  /\ c.state \in RequestedStates =>
        (c.combinedContent # <<>> /\ c.currentContentLength <= 3800000)
  /\ c.state = "SizeRejected" => c.currentContentLength > 3800000
  /\ (c.thrown # None) = (c.state \in ThrownStates)
  /\ (c.returned # None) = (c.state = "Succeeded")

CallStep(c, d) ==
  \/ c.state = "Idle" /\ d.state \in {"ConfigurationMissing", "PreconditionEmpty", "SizeRejected", "Calling"}
  \/ c.state = "Calling" /\ d.state \in {"Succeeded", "Failed"} /\ d.requests = c.requests

\* C11: an invocation goes from Idle to a precondition failure, to
\* SizeRejected or to Calling, and from Calling to Succeeded or Failed and
\* nowhere else; the request is issued exactly when it enters Calling, with a
\* blob within the limit, and never again: a failed invocation has issued one
\* request and stays failed.
C11_CallStateMachine ==
  /\ [](CallShape(call))
  /\ [][CallStep(call, call')]_call

C11_Witness == call.state = "Failed" /\ call.requests = 1 /\ call.thrown # None

\* C13: without the API key the invocation throws the Configuration-missing
\* error before it tests the list, assembles the blob or measures it, and it
\* issues no request, whatever the file list.
C13_CredentialCheckedFirst ==
  (~API_KEY /\ call.state # "Idle") =>
    /\ call.state = "ConfigurationMissing"
    /\ call.thrown = Some(ConfigurationMissingError)
    /\ call.combinedContent = <<>>
    /\ call.currentContentLength = 0
    /\ call.requests = 0

C13_Witness ==
  ~API_KEY /\ call.state = "ConfigurationMissing" /\ call.files = <<>> /\ call.requests = 0

\* The same for a list whose blob would be over the limit.
CredentialMissingOversized ==
  ~API_KEY /\ call.state = "ConfigurationMissing" /\ BlobBytes > 3800000

(***************************************************************************)
(* Properties of the admission pipeline (SpecAdmit).                       *)
(***************************************************************************)
\* The (path, content) pair a file of the input stands for.
AsPair(file) == [path |-> FilePath(file), content |-> file.text.content]

InputPairs(files) == [k \in 1..Len(files) |-> AsPair(files[k])]

\* a is b[from..] with some elements left out, the order kept: each element of a
\* is matched with its first occurrence in b after the match of the one before.
RECURSIVE IsSubsequenceFrom(_, _, _)
IsSubsequenceFrom(a, b, from) ==
  IF a = <<>> THEN TRUE
  ELSE LET at == {k \in from..Len(b) : b[k] = Head(a)}
       IN  /\ at # {}
           /\ IsSubsequenceFrom(Tail(a), b, (CHOOSE k \in at : \A j \in at : k <= j) + 1)

IsSubsequence(a, b) == IsSubsequenceFrom(a, b, 1)

\* The loop iterations so far: one entry per file considered.
Considered == {hfc.ledger[k] : k \in 1..Len(hfc.ledger)}

\* C1: the accepted files, while they are collected and when they are handed
\* to onFilesSelected, are a subsequence of the input files: input order is
\* kept and nothing appears that was not in the input.
C1_AcceptedIsSubsequenceOfInput ==
  /\ IsSubsequence(hfc.projectFiles, InputPairs(hfc.htmlFiles))
  /\ hfc.pc = "done" => /\ projectFiles = hfc.projectFiles
                        /\ IsSubsequence(projectFiles, InputPairs(hfc.htmlFiles))

\* C1 witness: the run over src/a.ts, node_modules/x/y.js, README has returned
\* and handed over src/a.ts and README, in that order.
C1_Witness ==
  /\ hfc.pc = "done"
  /\ hfc.htmlFiles = Scenario
  /\ [k \in 1..Len(projectFiles) |-> projectFiles[k].path] = <<P_src_a_ts, P_README>>


\* C2: a considered file of more than 2 MiB is skipped with the size reason,
\* whatever its path (also a path an ignore pattern or the allow-list
\* matches), and a file of at most 2 MiB, so one of exactly 2 MiB, is not
\* skipped for its size.
C2_SizeCap ==
  \A e \in Considered :
    /\ e.size > 2 * 1024 * 1024 => e.ignore /\ ~e.accepted /\ e.reason.kind = "size"
    /\ e.size <= 2 * 1024 * 1024 => e.reason.kind # "size"

\* C2 witness: the run over README and image.png, each at exactly 2 MiB and one
\* byte over, has returned: both files over the limit were skipped for their
\* size, README at the limit was accepted and image.png at the limit was
\* skipped for its pattern.
C2_Witness ==
  /\ hfc.pc = "done"
  /\ hfc.htmlFiles = SizeEdge
  /\ [k \in 1..4 |-> hfc.ledger[k].size] = <<2097152, 2097153, 2097153, 2097152>>
  /\ [k \in 1..4 |-> hfc.ledger[k].reason.kind] = <<"none", "size", "size", "pattern">>
  /\ Len(projectFiles) = 1 /\ projectFiles[1].path = P_README

NodeModules == <<"/","n","o","d","e","_","m","o","d","u","l","e","s","/">>

\* C3 as stated: a considered file whose path contains /node_modules/ is
\* skipped with the ignored-pattern reason.
C3_NodeModulesAlwaysIgnoredPattern ==
  \A e \in Considered :
    includes(e.filePath, NodeModules) => e.ignore /\ e.reason.kind = "pattern"

\* C3 as amended: a considered file of at most 2 MiB whose path contains
\* /node_modules/ is skipped with the ignored-pattern reason.
C3_NodeModulesIgnoredWithinSizeCap ==
  \A e \in Considered :
    includes(e.filePath, NodeModules) /\ e.size <= MAX_FILE_SIZE_BYTES
      => e.ignore /\ ~e.accepted /\ e.reason.kind = "pattern"

\* C3 witness: vendor/node_modules/README, whose filename is in the allow-list,
\* was considered within the size limit and skipped for the pattern
\* /node_modules/.
C3_Witness ==
  \E e \in Considered :
    /\ e.filePath = P_vendor_node_modules_README
    /\ e.size <= MAX_FILE_SIZE_BYTES
    /\ e.reason = Reason("pattern", NodeModules)

\* C7: every considered file is either accepted or skipped under exactly one
\* reason: processedFileCount is the length of the accepted list, the counts per
\* reason sum to skippedFileCount, the two counts sum to the number of files
\* considered so far, and when the run returns to the number of files to
\* process, with the accepted list handed to onFilesSelected.
C7_AcceptedOrSkippedOnce ==
  /\ hfc.processedFileCount = Len(hfc.projectFiles)
  /\ BagCardinality(hfc.skippedReasons) = hfc.skippedFileCount
  /\ hfc.processedFileCount + hfc.skippedFileCount = Len(hfc.ledger)
  /\ \A e \in Considered : e.accepted <=> e.reason.kind = "none"
  /\ Cardinality({k \in 1..Len(hfc.ledger) : hfc.ledger[k].accepted}) = hfc.processedFileCount
  /\ \A x \in BagToSet(hfc.skippedReasons) :
        hfc.skippedReasons[x] = Cardinality({k \in 1..Len(hfc.ledger) : hfc.ledger[k].reason = x})
  /\ hfc.pc = "await" => Len(hfc.ledger) = hfc.i - 1
  /\ hfc.pc = "done" /\ hfc.htmlFiles # <<>> =>
        /\ hfc.processedFileCount + hfc.skippedFileCount = Len(hfc.filesToProcess)
        /\ Len(projectFiles) = hfc.processedFileCount
        /\ fileSummary.a = hfc.processedFileCount /\ fileSummary.b = hfc.skippedFileCount

\* C7 witness: the documented scenario has returned with src/a.ts and README
\* accepted and node_modules/x/y.js skipped under the one reason "ignored
\* pattern /node_modules/".
C7_Witness ==
  /\ hfc.pc = "done"
  /\ hfc.htmlFiles = Scenario
  /\ hfc.processedFileCount = 2 /\ hfc.skippedFileCount = 1
  /\ [k \in 1..Len(projectFiles) |-> projectFiles[k].path] = <<P_src_a_ts, P_README>>
  /\ hfc.skippedReasons = SetToBag({Reason("pattern", NodeModules)})


\* C8 as stated: when more than 500 files are selected, the run has looked at
\* the first 500 only, the others are neither accepted nor counted as skipped,
\* and when the run has returned the component shows the truncation.
C8_TotalCountCapReported ==
  hfc.pc = "done" /\ Len(hfc.htmlFiles) > 500 =>
    /\ hfc.filesToProcess = SubSeq(hfc.htmlFiles, 1, 500)
    /\ hfc.processedFileCount + hfc.skippedFileCount = 500
    /\ Len(hfc.ledger) = 500
    /\ IsSubsequence(projectFiles, InputPairs(SubSeq(hfc.htmlFiles, 1, 500)))
    /\ inputError = TruncationError(Len(hfc.htmlFiles))

\* The part of C8 that holds: the counts, and the console warning that is
\* written when the run starts.
TotalCountCapCounts ==
  hfc.pc \in {"await", "done"} /\ Len(hfc.htmlFiles) > 500 =>
    /\ hfc.filesToProcess = SubSeq(hfc.htmlFiles, 1, 500)
    /\ Len(hfc.ledger) <= 500
    /\ hfc.pc = "done" => hfc.processedFileCount + hfc.skippedFileCount = 500
    /\ IsSubsequence(hfc.projectFiles, InputPairs(SubSeq(hfc.htmlFiles, 1, 500)))
    /\ console # <<>> /\ console[1].a = Len(hfc.htmlFiles) /\ console[1].b = 500
    /\ hfc.pc = "await" => inputError = TruncationError(Len(hfc.htmlFiles))
    /\ hfc.pc = "done" /\ projectFiles # <<>> => inputError = TruncationError(Len(hfc.htmlFiles))

\* The allow-list as a set, and the filename and extension of a path, written
\* from the documentation of the filter.
AllowList ==
  {ALLOWED_EXTENSIONS_AND_FILENAMES[k] : k \in 1..Len(ALLOWED_EXTENSIONS_AND_FILENAMES)}

Last(S) == CHOOSE k \in S : \A j \in S : j <= k

\* The text after the last "/".
FileNameOf(path) ==
  LET slashes == {k \in 1..Len(path) : path[k] = "/"}
  IN  IF slashes = {} THEN path ELSE SubSeq(path, Last(slashes) + 1, Len(path))

\* The lower-cased text from the last "." of the filename on; empty without a ".".
ExtensionOf(path) ==
  LET name == FileNameOf(path)
      dots == {k \in 1..Len(name) : name[k] = "."}
  IN  IF dots = {} THEN <<>> ELSE toLowerCase(SubSeq(name, Last(dots), Len(name)))

\* The ignore patterns that match a path, by their place in IGNORED_PATTERNS.
MatchingPatterns(path) ==
  {k \in 1..Len(IGNORED_PATTERNS) : matchesPattern(path, IGNORED_PATTERNS[k])}

\* C9: a considered file within the size limit that no ignore pattern matches
\* passes the filter exactly when its filename or its lower-cased extension is
\* an entry of the allow-list; otherwise it is skipped, as "no extension" when
\* the filename has no ".", as "extension not allowed" when it has one.  README
\* and app.py pass, NOTES is skipped as "no extension".
C9_AllowListStage ==
  \A e \in Considered :
    LET path == replaceBackslashes(e.filePath)
        name == FileNameOf(path)
        ext == ExtensionOf(path)
    IN  /\ e.size <= 2 * 1024 * 1024 /\ MatchingPatterns(path) = {} =>
              IF name \in AllowList \/ ext \in AllowList
                THEN ~e.ignore /\ e.reason.kind \in {"none", "unreadable"}
                ELSE /\ e.ignore /\ ~e.accepted
                     /\ e.reason = IF ext = <<>> THEN Reason("noext", name) ELSE Reason("ext", ext)
        /\ e.size <= 2 * 1024 * 1024 /\ e.filePath \in {P_README, P_app_py} => ~e.ignore
        /\ e.size <= 2 * 1024 * 1024 /\ e.filePath = P_NOTES => e.reason = Reason("noext", P_NOTES)

\* C9 witness: the run over README, app.py, NOTES and data.bin has returned with
\* README and app.py accepted, NOTES skipped as "no extension" and data.bin as
\* "extension .bin not allowed".
C9_Witness ==
  /\ hfc.pc = "done"
  /\ hfc.htmlFiles = AllowListExamples
  /\ [k \in 1..Len(projectFiles) |-> projectFiles[k].path] = <<P_README, P_app_py>>
  /\ hfc.ledger[3].reason = Reason("noext", P_NOTES)
  /\ hfc.ledger[4].reason = Reason("ext", <<".", "b", "i", "n">>)

\* C10: the filter stages are tried in the order size limit, ignore patterns,
\* allow-list, and the first that applies decides: a file over the limit is
\* skipped for its size; a file within the limit that an ignore pattern matches
\* is skipped for the first pattern of IGNORED_PATTERNS that matches it, also
\* when its filename or extension is in the allow-list; only then the
\* allow-list decides.  image.png is skipped for *.png and dist/app.js for
\* /dist/.
C10_FirstMatchWins ==
  \A e \in Considered :
    LET path == replaceBackslashes(e.filePath)
        matching == MatchingPatterns(path)
    IN  /\ e.size > 2 * 1024 * 1024 => e.reason.kind = "size"
        /\ e.size <= 2 * 1024 * 1024 /\ matching # {} =>
              /\ e.ignore /\ ~e.accepted
              /\ e.reason = Reason("pattern",
                                   IGNORED_PATTERNS[CHOOSE k \in matching : \A j \in matching : k <= j])
        /\ e.size <= 2 * 1024 * 1024 /\ matching = {} =>
              e.reason.kind \in {"none", "noext", "ext", "unreadable"}
        /\ e.size <= 2 * 1024 * 1024 /\ e.filePath = P_image_png =>
              e.reason = Reason("pattern", <<"*", ".", "p", "n", "g">>)
        /\ e.size <= 2 * 1024 * 1024 /\ e.filePath = P_dist_app_js =>
              e.reason = Reason("pattern", <<"/", "d", "i", "s", "t", "/">>)

\* C10 witness: the run over image.png, dist/app.js, mythumbs.db,
\* node_modules/.git/c.js and an oversized dist/app.js has returned; they were
\* skipped for *.png, /dist/ (though .js is allowed), Thumbs.db (which precedes
\* *.db), /.git/ (which precedes /node_modules/) and for the size.
C10_Witness ==
  /\ hfc.pc = "done"
  /\ hfc.htmlFiles = PatternExamples
  /\ projectFiles = <<>>
  /\ [k \in 1..5 |-> hfc.ledger[k].reason.kind] = <<"pattern", "pattern", "pattern", "pattern", "size">>
  /\ hfc.ledger[2].reason.arg = <<"/", "d", "i", "s", "t", "/">>
  /\ hfc.ledger[3].reason.arg = <<"T", "h", "u", "m", "b", "s", ".", "d", "b">>
  /\ hfc.ledger[4].reason.arg = <<"/", ".", "g", "i", "t", "/">>

\* The files among the first n of filesToProcess that pass the filter and can
\* be read, as (path, content) pairs in their order.
Reviewable(file) == ~shouldIgnoreFile(FilePath(file), file.size).ignore /\ file.text.ok

ReviewableUpTo(n) ==
  LET S == {k \in 1..n : Reviewable(hfc.filesToProcess[k])}
      nth(m) == CHOOSE k \in S : Cardinality({j \in S : j < k}) = m - 1
  IN  [m \in 1..Cardinality(S) |-> AsPair(hfc.filesToProcess[nth(m)])]

Unreadable == Reason("unreadable", <<>>)

\* C15: when file.text() fails for a file, that file is skipped as unreadable
\* and nothing else changes: the files accepted before it are still the head
\* of the accepted list, the loop goes on to every later file, and when the
\* run has returned onFilesSelected has received all the reviewable files.
C15_DecodeFailureSkipsOneFile ==
  \A k \in 1..Len(hfc.filesToProcess) :
    LET file == hfc.filesToProcess[k]
        failed == ~shouldIgnoreFile(FilePath(file), file.size).ignore /\ ~file.text.ok
        past == hfc.pc = "done" \/ (hfc.pc = "await" /\ hfc.i > k)
    IN  (failed /\ past) =>
          /\ Len(hfc.ledger) >= k
          /\ hfc.ledger[k].reason = Unreadable
          /\ ~hfc.ledger[k].accepted /\ ~hfc.ledger[k].ignore
          /\ hfc.skippedReasons[Unreadable] >= 1
          /\ LET before == ReviewableUpTo(k - 1)
             IN  Len(hfc.projectFiles) >= Len(before)
                   /\ SubSeq(hfc.projectFiles, 1, Len(before)) = before
          /\ hfc.projectFiles = ReviewableUpTo(Len(hfc.ledger))
          /\ hfc.pc = "done" =>
                /\ Len(hfc.ledger) = Len(hfc.filesToProcess)
                /\ projectFiles = ReviewableUpTo(Len(hfc.filesToProcess))
                /\ projectName = hfc.folderName
                /\ ~isProcessing

\* C15 witness: of three files the second could not be read; the run has
\* returned with the first and the third accepted.
C15_Witness ==
  /\ hfc.pc = "done" /\ Len(hfc.ledger) = 3
  /\ hfc.ledger[1].accepted /\ hfc.ledger[2].reason = Unreadable /\ hfc.ledger[3].accepted
  /\ Len(projectFiles) = 2
  /\ projectFiles[1].path = hfc.ledger[1].filePath /\ projectFiles[2].path = hfc.ledger[3].filePath

HasBackslash(path) == \E i \in 1..Len(path) : path[i] = "\\"

\* The decision of the filter does not depend on the separator.
SameDecisionAsSlashForm ==
  \A e \in Considered :
    HasBackslash(e.filePath) =>
      shouldIgnoreFile(e.filePath, e.size) = shouldIgnoreFile(replaceBackslashes(e.filePath), e.size)

\* C16: a file whose path is written with backslashes is decided as its
\* slash-separated form is, and the paths of the accepted files, while they are
\* collected and when they are handed to onFilesSelected, have no backslash.
C16_AcceptedPathsSlashNormalized ==
  /\ SameDecisionAsSlashForm
  /\ \A k \in 1..Len(hfc.projectFiles) : ~HasBackslash(hfc.projectFiles[k].path)
  /\ \A k \in 1..Len(projectFiles) : ~HasBackslash(projectFiles[k].path)

\* The patterns of IGNORED_PATTERNS written /name/, and their names.
DirectoryPatterns ==
  {IGNORED_PATTERNS[k] : k \in {j \in 1..Len(IGNORED_PATTERNS) :
                                  /\ Len(IGNORED_PATTERNS[j]) > 2
                                  /\ IGNORED_PATTERNS[j][1] = "/"
                                  /\ IGNORED_PATTERNS[j][Len(IGNORED_PATTERNS[j])] = "/"}}

DirectoryName(pattern) == SubSeq(pattern, 2, Len(pattern) - 1)

\* The segments of a path: the texts between one "/" (or the start) and the
\* next "/" (or the end).
Segments(path) ==
  LET cuts == {0, Len(path) + 1} \cup {k \in 1..Len(path) : path[k] = "/"}
  IN  {SubSeq(path, i + 1, j - 1) :
         <<i, j>> \in {c \in cuts \X cuts : c[1] < c[2] /\ ~\E k \in cuts : c[1] < k /\ k < c[2]}}

\* C17: a directory pattern /name/ matches a path exactly when one of the
\* segments of the path, the first one and the filename included, is name
\* itself, letter case included.
C17_DirectoryPatternMatchesWholeSegments ==
  \A e \in Considered :
    LET path == replaceBackslashes(e.filePath)
    IN  \A pattern \in DirectoryPatterns :
          matchesPattern(path, pattern) <=> DirectoryName(pattern) \in Segments(path)

\* C17 witness: my-node_modules-backup/a.ts has been accepted, /node_modules/
\* not matching it.
C17_Witness ==
  \E e \in Considered :
    /\ e.filePath = P_backup_a_ts
    /\ e.accepted
    /\ ~matchesPattern(e.filePath, NodeModules)

\* Build/a.ts has been accepted: /build/ does not match another letter case.
UpperCaseSegmentSeen == \E e \in Considered : e.filePath = P_Build_a_ts /\ e.accepted

\* The file named build has been skipped for the pattern /build/.
FileNameSegmentSeen ==
  \E e \in Considered : e.filePath = P_build /\ e.reason = Reason("pattern", <<"/","b","u","i","l","d","/">>)

DotEnv == <<".", "e", "n", "v">>

DotEnvPattern == <<"/", ".", "e", "n", "v", "/">>

DotExample == <<".", "e", "x", "a", "m", "p", "l", "e">>

\* C18 as stated: a considered file with .env as a segment of its path is
\* skipped with an ignored-pattern reason; the file .env.example matches no
\* ignore pattern and is skipped at the allow-list for its extension .example.
C18_EnvEdgeCase ==
  \A e \in Considered :
    LET path == replaceBackslashes(e.filePath)
    IN  /\ DotEnv \in Segments(path) => e.ignore /\ ~e.accepted /\ e.reason.kind = "pattern"
        /\ path = P_env_example =>
             /\ MatchingPatterns(path) = {}
             /\ P_env_example \notin AllowList /\ DotExample \notin AllowList
             /\ e.ignore /\ ~e.accepted /\ e.reason = Reason("ext", DotExample)

\* C18 as amended: the same for the considered files of at most 2 MiB; the
\* pattern that matches a .env segment first is /.env/ unless an earlier
\* pattern matches the path too.
C18_EnvEdgeCaseWithinSizeCap ==
  \A e \in Considered :
    LET path == replaceBackslashes(e.filePath)
    IN  e.size <= MAX_FILE_SIZE_BYTES =>
          /\ DotEnv \in Segments(path) =>
               /\ e.ignore /\ ~e.accepted /\ e.reason.kind = "pattern"
               /\ matchesPattern(path, e.reason.arg)
               /\ (\A k \in MatchingPatterns(path) : IGNORED_PATTERNS[k] = DotEnvPattern)
                    => e.reason = Reason("pattern", DotEnvPattern)
          /\ path = P_env_example =>
               /\ MatchingPatterns(path) = {}
               /\ P_env_example \notin AllowList /\ DotExample \notin AllowList
               /\ e.ignore /\ ~e.accepted /\ e.reason = Reason("ext", DotExample)

\* C18 witness: .env.example has been skipped for its extension.
C18_Witness ==
  \E e \in Considered : e.filePath = P_env_example /\ e.reason = Reason("ext", DotExample)

\* The file a/.env, the file .env and a file of the directory .env have been
\* skipped for the pattern /.env/.
DotEnvFileSeen ==
  \E e \in Considered : e.filePath = P_a_env /\ e.reason = Reason("pattern", DotEnvPattern)

DotEnvAtRootSeen ==
  \E e \in Considered : e.filePath = P_dot_env /\ e.reason = Reason("pattern", DotEnvPattern)

DotEnvDirectorySeen ==
  \E e \in Considered : e.filePath = P_env_dir_config_ts /\ e.reason = Reason("pattern", DotEnvPattern)

(***************************************************************************)
(* Properties of the application (Spec, LiveSpec).                         *)
(***************************************************************************)
\* C12: at most one invocation of handleReviewProject is suspended in its
\* remote call, isLoading is true as long as one is, and each has issued
\* one request.
C12_SingleOutstandingCall ==
  /\ Len(reviews) <= 1
  /\ isLoading = (Len(reviews) = 1)
  /\ \A k \in 1..Len(reviews) : reviews[k].state = "Calling" /\ reviews[k].requests = 1

\* C12 witness: after one call has settled a second one is outstanding,
\* while a folder selection is reading its files.
C12_Witness ==
  /\ Len(reviews) = 1 /\ isLoading
  /\ call.state \in {"Succeeded", "Failed"}
  /\ hfc.pc = "await"

\* The error kind each failure of the pool is to become.
ExpectedKind ==
  (RemoteError(E_auth) :> RemoteAuthInvalidError)
    @@ (RemoteError(E_authAndPayload) :> RemoteAuthInvalidError)
    @@ (RemoteError(E_payload) :> RemotePayloadRejectedError)
    @@ (RemoteError(E_entity) :> RemotePayloadRejectedError)
    @@ (RemoteError(E_sizeNo400) :> RemoteGenericFailureError(E_sizeNo400))
    @@ (RemoteError(E_network) :> RemoteGenericFailureError(E_network))
    @@ (NotAnError :> UnknownError)

ErrorKinds ==
  {ConfigurationMissingError, PreconditionEmptyError, RemoteAuthInvalidError,
   RemotePayloadRejectedError, UnknownError}
    \cup {PayloadTooLargeError(n) : n \in {call.currentContentLength}}
    \cup {RemoteGenericFailureError(m) : m \in {E_sizeNo400, E_network}}

\* A review action fails in this step.
ReviewFails == call' # call /\ call'.state \in ThrownStates

\* C14: a failed remote call throws the kind its cause calls for, the API key
\* signature first, then the payload signatures, then the generic failure with
\* the message of the cause, and Unknown for a cause that is no Error; and when
\* a review action fails the application holds the message of one error kind,
\* no feedback, and is no longer loading.
C14_FailureBecomesOneErrorKind ==
  /\ [](call.state = "Failed" =>
          /\ call.caught # None
          /\ call.thrown = Some(ExpectedKind[call.caught.val]))
  /\ [](call.state \in ThrownStates => call.thrown # None /\ call.thrown.val \in ErrorKinds)
  /\ [][ReviewFails => (error' = call'.thrown /\ error' # None /\ feedback' = None /\ ~isLoading')]_vars

\* C14 witness: a remote failure that mentions the API key and the payload
\* size has become Remote-auth-invalid, and the application shows it.
C14_Witness ==
  /\ call.state = "Failed"
  /\ call.caught = Some(RemoteError(E_authAndPayload))
  /\ error = Some(RemoteAuthInvalidError)
  /\ feedback = None /\ ~isLoading

\* C19: the feedback the application holds is the review of the files it
\* holds in projectFiles.
C19_FeedbackIsOfCurrentFiles ==
  feedback # None => (call.state = "Succeeded" /\ feedback = call.returned /\ call.files = projectFiles)

\* A review action completes in this step.
ReviewCompletes == call' # call

\* C20: every outstanding remote call is followed by the completion of its
\* review action; when a review action completes, isLoading is false and
\* exactly one of feedback and error is not null; and feedback and error are
\* never both not null.
C20_ReviewCompletesWithFeedbackOrError ==
  /\ (reviews # <<>>) ~> (reviews = <<>> /\ ~isLoading)
  /\ [][ReviewCompletes => (~isLoading' /\ ((feedback' # None) # (error' # None)))]_vars
  /\ [](~(feedback # None /\ error # None))

\* C20 witness: a remote call has resolved and the application holds its
\* feedback and no error.
C20_Witness ==
  /\ call.state = "Succeeded" /\ call.requests = 1
  /\ ~isLoading /\ reviews = <<>>
  /\ feedback = call.returned /\ error = None

=============================================================================
